---- MODULE Spec2Model ----
(***************************************************************************)
(* Multi_agent: the routing workflow (router -> weather | unknown | RAG    *)
(* pipeline) and the content-addressed index cache (file_fingerprint,      *)
(* generate_collection_name, is_index_valid, build/load of the Qdrant      *)
(* collection and its meta.json descriptor).                               *)
(*                                                                         *)
(* One request at a time runs through the LangGraph workflow, one node per *)
(* step.  The document files live outside the program and may be written   *)
(* at any moment, also between two nodes of a running request.  Only       *)
(* check_cache, load_pdf and build_index read a file, so a write is placed *)
(* between requests, after check_cache or before build_index; a write at   *)
(* any other moment commutes with the nodes around it.                     *)
(***************************************************************************)
EXTENDS Integers, Sequences, FiniteSets, TLC

\* ------------------------------------------------------------------ bounds
MaxWrites == 1
MaxDocQueries == 2
MaxFaults == 1
MaxRequests == 3

\* ------------------------------------------------------- program constants
DEFAULT_CHUNK_SIZE == 1000
DEFAULT_CHUNK_OVERLAP == 150
EMBEDDING_MODEL == "text-embedding-3-small"
INDEX_ROOT == ".indices"

\* ---------------------------------------------------------------- options
None == <<>>
Some(x) == <<x>>

\* ------------------------------------------------------------ text helpers
\* Strings that the code inspects character by character are sequences of
\* one-character strings.
LowerChar(ch) ==
    CASE ch = "A" -> "a" [] ch = "G" -> "g" [] ch = "R" -> "r"
      [] ch = "W" -> "w" [] OTHER -> ch

\* str.lower()
Lower(s) == [i \in 1..Len(s) |-> LowerChar(s[i])]

\* str.strip()
RECURSIVE LStrip(_)
LStrip(s) == IF s # <<>> /\ Head(s) = " " THEN LStrip(Tail(s)) ELSE s

RECURSIVE RStrip(_)
RStrip(s) ==
    IF s # <<>> /\ s[Len(s)] = " " THEN RStrip(SubSeq(s, 1, Len(s) - 1)) ELSE s

Strip(s) == LStrip(RStrip(s))

\* `word in text` for Python strings: substring containment
Contains(text, word) ==
    \E i \in 1..(Len(text) - Len(word) + 1) :
        SubSeq(text, i, i + Len(word) - 1) = word

\* ------------------------------------------------------------- the router
RAG == <<"r", "a", "g">>
WEATHER == <<"w", "e", "a", "t", "h", "e", "r">>
UNKNOWN == <<"u", "n", "k", "n", "o", "w", "n">>

weather_keywords ==
    << WEATHER,
       <<"t", "e", "m", "p", "e", "r", "a", "t", "u", "r", "e">>,
       <<"r", "a", "i", "n">>,
       <<"c", "l", "i", "m", "a", "t", "e">>,
       <<"h", "u", "m", "i", "d", "i", "t", "y">>,
       <<"f", "o", "r", "e", "c", "a", "s", "t">> >>

\* variant: the keyword test on the question as typed, not lowercased
has_weather_keyword_case_sensitive(question) ==
    \E k \in 1..Len(weather_keywords) :
        Contains(question, weather_keywords[k])

\* any(word in question.lower() for word in weather_keywords)
has_weather_keyword(question) ==
    \E k \in 1..Len(weather_keywords) :
        Contains(Lower(question), weather_keywords[k])

\* Questions a caller may ask: "Rainy" (the keyword rain, capitalised and
\* inside a longer word) and "sum p3" (no keyword)
Questions ==
    { <<"R", "a", "i", "n", "y">>,
      <<"s", "u", "m", " ", "p", "3">> }

\* What extract_all_pdf_contexts("uploaded_pdfs") can do: the folder is
\* missing or holds no PDF (it raises), loading or the merge call raises,
\* or it returns the stripped merge text, which may be empty.
ContextOutcomes == {"no_folder", "no_pdfs", "raises", "empty", "text"}

ContextRaises(ctx) == ctx \in {"no_folder", "no_pdfs", "raises"}

\* What the classifier call can do: raise, or return some text
ClassifierRaises == <<"!">>

ClassifierOutcomes ==
    { ClassifierRaises,
      RAG,
      <<" ", "R", "A", "G", " ">>,
      WEATHER,
      UNKNOWN,
      <<"p", "d", "f">> }

RouterRaises == <<"!", "!">>

\* variant: a router that asks the classifier whether or not a document
\* and a context are there
route_to_agent_always_classifying(question, pdf_available, ctx, cls) ==
    IF has_weather_keyword(question) THEN WEATHER
    ELSE IF cls = ClassifierRaises THEN UNKNOWN
    ELSE IF Strip(Lower(cls)) \in {RAG, WEATHER, UNKNOWN}
         THEN Strip(Lower(cls))
         ELSE UNKNOWN

\* route_to_agent(question, pdf_available) under the collaborator outcomes
\* ctx (context derivation) and cls (classifier).  RouterRaises: the call
\* leaves route_to_agent as an exception.
route_to_agent(question, pdf_available, ctx, cls) ==
    IF has_weather_keyword(question) THEN WEATHER
    ELSE IF pdf_available /\ ContextRaises(ctx) THEN RouterRaises
    ELSE IF ~pdf_available \/ ctx = "empty" THEN UNKNOWN
    ELSE IF cls = ClassifierRaises THEN UNKNOWN
    ELSE IF Strip(Lower(cls)) \in {RAG, WEATHER, UNKNOWN}
         THEN Strip(Lower(cls))
         ELSE UNKNOWN

\* the external calls route_to_agent makes.  extract_all_pdf_contexts runs
\* one summarizer chain per chunk and per PDF that is not in
\* _pdf_context_cache and always the merge chain: at least the merge call
\* whenever it returns.  The classifier is called when the context is not
\* empty.
router_calls(question, pdf_available, ctx, cls) ==
    IF has_weather_keyword(question) \/ ~pdf_available THEN <<>>
    ELSE IF ContextRaises(ctx) THEN <<>>
    ELSE IF ctx = "empty" THEN <<"merge_summaries">>
    ELSE <<"merge_summaries", "classifier">>

NoPdf == "None"

\* dict.get(key, default)
Get(state, key, default) == IF key \in DOMAIN state THEN state[key] ELSE default

\* variant: the edge without the pdf_path test on the rag branch
route_after_classification_no_pdf_test(state) ==
    LET agent_type == Get(state, "agent_type", UNKNOWN)
    IN  IF agent_type = WEATHER THEN "weather"
        ELSE IF agent_type = RAG THEN "check_cache"
        ELSE "unknown"

\* route_after_classification(state)
route_after_classification(state) ==
    LET agent_type == Get(state, "agent_type", UNKNOWN)
    IN  IF agent_type = WEATHER THEN "weather"
        ELSE IF agent_type = RAG
             THEN IF Get(state, "pdf_path", NoPdf) = NoPdf
                  THEN "unknown"
                  ELSE "check_cache"
             ELSE "unknown"

\* agent_type.upper() inside the routing step text
UpperName(agent_type) ==
    CASE agent_type = RAG -> "RAG"
      [] agent_type = WEATHER -> "WEATHER"
      [] OTHER -> "UNKNOWN"

\* ------------------------------------------------------------- documents
Paths == {"A", "B"}

\* File contents are byte sequences, here two of the same length.
Contents == { <<1, 2>>, <<2, 1>> }

\* Modification times (whole seconds)
Mtimes == {1, 2}

RECURSIVE WeightedSum(_, _)
WeightedSum(bytes, i) ==
    IF i > Len(bytes) THEN 0 ELSE i * bytes[i] + WeightedSum(bytes, i + 1)

\* hashlib.sha256 over the bytes: a digest of two parts, the first standing
\* for the leading 24 hex digits.  Distinct contents get distinct digests.
sha256(bytes) == <<WeightedSum(bytes, 1), Len(bytes)>>

ParamSets ==
    { [chunk_size |-> DEFAULT_CHUNK_SIZE, chunk_overlap |-> DEFAULT_CHUNK_OVERLAP,
       embed_model |-> EMBEDDING_MODEL],
      [chunk_size |-> 500, chunk_overlap |-> DEFAULT_CHUNK_OVERLAP,
       embed_model |-> EMBEDDING_MODEL],
      [chunk_size |-> DEFAULT_CHUNK_SIZE, chunk_overlap |-> 100,
       embed_model |-> EMBEDDING_MODEL],
      [chunk_size |-> DEFAULT_CHUNK_SIZE, chunk_overlap |-> DEFAULT_CHUNK_OVERLAP,
       embed_model |-> "m2"] }

VARIABLES
    fs,               \* path -> [content, mtime]: the document files
    fpcache,          \* path -> the .cache_<md5(path)>.json file, if any
    dirs,             \* persist directories that exist under INDEX_ROOT
    collections,      \* Qdrant collections: [dir, name, points, embed]
    meta,             \* persist directory -> its meta.json, if any
    client_cache,     \* _client_cache: persist dirs with an open client
    vectorstore_cache,\* _vectorstore_cache: keys of attached stores
    pc,               \* the workflow node to run next
    st,               \* the workflow state dict of the running request
    visited,          \* nodes the running request has executed, in order
    docChanged,       \* the request's document was written since check_cache
    lastBuild,        \* the last completed build, until the next check_cache
    gate,             \* lastBuild as the request's check_cache found it
    calls,            \* external calls the running request has made, in order
    lastHit,          \* the last check_cache, if it reported HIT and its document was not written since
    nWrites,
    nDocQueries,
    nFaults,          \* builds that stopped with an exception
    tpc,              \* thread -> where it is in build / load / cleanup
    tclient,          \* thread -> the client it obtained (0: none)
    nClients,         \* QdrantClient objects constructed so far
    closed,           \* the clients on which close() was called
    cached_client,    \* the client stored in _client_cache (0: no entry)
    nHandles,         \* index handles constructed since the pools were cleared
    cached_handle,    \* the client of the handle in _vectorstore_cache (0: no entry)
    nRequests,        \* requests the threads have started
    uploaded,         \* the PDFs in the folder uploaded_pdfs
    pdf_context_cache,\* _pdf_context_cache: the PDFs with a cached summary
    routing,          \* route_to_agent under way: its document and its loop over the folder
    cinputs           \* the inputs the classifier was given so far

vars == <<fs, fpcache, dirs, collections, meta, client_cache,
          vectorstore_cache, pc, st, visited, docChanged, lastBuild,
          gate, calls, lastHit, nWrites, nDocQueries, nFaults, tpc, tclient, nClients,
          closed, cached_client, nHandles, cached_handle, nRequests,
          uploaded, pdf_context_cache, routing, cinputs>>

indexVars == <<dirs, collections, meta>>
poolVars == <<client_cache, vectorstore_cache>>
ghostVars == <<docChanged, lastBuild, gate, calls, lastHit>>
ctxVars == <<uploaded, pdf_context_cache, routing, cinputs>>
concVars == <<tpc, tclient, nClients, closed, cached_client, nHandles,
              cached_handle, nRequests>>

\* ----------------------------------------------------------- fingerprint
stat(path) ==
    [st_size |-> Len(fs[path].content), st_mtime |-> fs[path].mtime]

quick_key(path) == <<stat(path).st_size, stat(path).st_mtime>>

\* The cache file is trusted when its quick_key equals the current one.
fingerprint_cached(path) ==
    fpcache[path] # None /\ fpcache[path][1].quick_key = quick_key(path)

fresh_fingerprint(path) ==
    [sha256 |-> sha256(fs[path].content),
     size |-> stat(path).st_size,
     mtime |-> stat(path).st_mtime,
     quick_key |-> quick_key(path)]

\* file_fingerprint(path): the value returned
file_fingerprint(path) ==
    IF fingerprint_cached(path) THEN fpcache[path][1]
    ELSE fresh_fingerprint(path)

\* file_fingerprint(path): the cache files afterwards
fpcache_after(path) ==
    IF fingerprint_cached(path) THEN fpcache
    ELSE [fpcache EXCEPT ![path] = Some(fresh_fingerprint(path))]

generate_collection_name(pdf_path) ==
    <<"pdf_", file_fingerprint(pdf_path).sha256[1]>>

PersistDir(collection_name) == <<INDEX_ROOT, collection_name>>

get_index_metadata(pdf_path, chunk_size, chunk_overlap, embed_model) ==
    [pdf_fingerprint |-> file_fingerprint(pdf_path),
     chunk_size |-> chunk_size,
     chunk_overlap |-> chunk_overlap,
     embedding_model |-> embed_model,
     format |-> "v2"]

AllNames == { <<"pdf_", sha256(c)[1]>> : c \in Contents }
AllDirs == { PersistDir(n) : n \in AllNames }

load_metadata(persist_dir) == meta[persist_dir]

\* a meta.json whose text json.loads rejects (empty or cut short)
Unparseable == <<[unparseable |-> TRUE]>>

\* load_metadata hands the text to json.loads with no handler around it
load_metadata_raises(persist_dir) == meta[persist_dir] = Unparseable

collection_exists(persist_dir, collection_name) ==
    \E c \in collections : c.dir = persist_dir /\ c.name = collection_name

\* variant: the validation without the chunk_overlap comparison
is_index_valid_no_overlap_test(collection_name, persist_dir, pdf_path, chunk_size, chunk_overlap, embed_model) ==
    /\ persist_dir \in dirs
    /\ collection_exists(persist_dir, collection_name)
    /\ load_metadata(persist_dir) # None
    /\ LET saved_meta == load_metadata(persist_dir)[1]
           current_meta == get_index_metadata(pdf_path, chunk_size,
                                              chunk_overlap, embed_model)
       IN  /\ saved_meta.pdf_fingerprint = current_meta.pdf_fingerprint
           /\ saved_meta.chunk_size = current_meta.chunk_size
           /\ saved_meta.embedding_model = current_meta.embedding_model

\* variant: is_index_valid without the test that the collection exists
is_index_valid_no_collection_test(collection_name, persist_dir, pdf_path, chunk_size, chunk_overlap, embed_model) ==
    /\ persist_dir \in dirs
    /\ load_metadata(persist_dir) # None
    /\ LET saved_meta == load_metadata(persist_dir)[1]
           current_meta == get_index_metadata(pdf_path, chunk_size,
                                              chunk_overlap, embed_model)
       IN  /\ saved_meta.pdf_fingerprint = current_meta.pdf_fingerprint
           /\ saved_meta.chunk_size = current_meta.chunk_size
           /\ saved_meta.chunk_overlap = current_meta.chunk_overlap
           /\ saved_meta.embedding_model = current_meta.embedding_model

is_index_valid(collection_name, persist_dir, pdf_path, chunk_size, chunk_overlap, embed_model) ==
    /\ persist_dir \in dirs
    /\ collection_exists(persist_dir, collection_name)
    /\ load_metadata(persist_dir) # None
    /\ LET saved_meta == load_metadata(persist_dir)[1]
           current_meta == get_index_metadata(pdf_path, chunk_size,
                                              chunk_overlap, embed_model)
       IN  /\ saved_meta.pdf_fingerprint = current_meta.pdf_fingerprint
           /\ saved_meta.chunk_size = current_meta.chunk_size
           /\ saved_meta.chunk_overlap = current_meta.chunk_overlap
           /\ saved_meta.embedding_model = current_meta.embedding_model

\* is_index_valid calls load_metadata after, and outside, the try block
\* around the listing: the directory and the collection were found
is_index_valid_raises(collection_name, persist_dir) ==
    /\ persist_dir \in dirs
    /\ collection_exists(persist_dir, collection_name)
    /\ load_metadata_raises(persist_dir)

\* get_or_create_client as reached from is_index_valid: only when the
\* persist directory exists
clients_after_valid_check(persist_dir) ==
    IF persist_dir \in dirs THEN client_cache \cup {persist_dir}
    ELSE client_cache

\* variant: the cache_hit expression without the force_rebuild conjunct
cache_hit_of_ignoring_force(collection_name, pdf_path, params, force_rebuild) ==
    is_index_valid(collection_name, PersistDir(collection_name), pdf_path,
                   params.chunk_size, params.chunk_overlap, params.embed_model)

\* the cache_hit expression of check_cache_node
cache_hit_of(collection_name, pdf_path, params, force_rebuild) ==
    /\ is_index_valid(collection_name, PersistDir(collection_name), pdf_path,
                      params.chunk_size, params.chunk_overlap,
                      params.embed_model)
    /\ ~force_rebuild

\* variant: the edge that always takes the build branch
should_build_index_always_build(cache_hit) == "load_pdf"

should_build_index(cache_hit) == IF cache_hit THEN "load_index" ELSE "load_pdf"

\* -------------------------------------------------------- workflow state
\* variant: the merge without a reducer, every key overwritten
Merge_overwriting(state, upd) ==
    [k \in (DOMAIN state) \cup (DOMAIN upd) |->
        IF k \in DOMAIN upd THEN upd[k] ELSE state[k]]

\* variant: a reducer that puts the node's entries in front of the trace
Merge_prepending(state, upd) ==
    [k \in (DOMAIN state) \cup (DOMAIN upd) |->
        IF k = "steps" /\ k \in DOMAIN state /\ k \in DOMAIN upd
            THEN upd[k] \o state[k]
        ELSE IF k \in DOMAIN upd THEN upd[k]
        ELSE state[k]]

\* LangGraph merges a node's partial update into the state dict; the steps
\* key is reduced with operator.add.
Merge(state, upd) ==
    [k \in (DOMAIN state) \cup (DOMAIN upd) |->
        IF k = "steps" /\ k \in DOMAIN state /\ k \in DOMAIN upd
            THEN state[k] \o upd[k]
        ELSE IF k \in DOMAIN upd THEN upd[k]
        ELSE state[k]]

Idle == [idle |-> TRUE]

Running == pc \notin {"START", "END", "ERROR", "EXIT"}

params_of(state) ==
    [chunk_size |-> state.chunk_size, chunk_overlap |-> state.chunk_overlap,
     embed_model |-> state.embed_model]

\* threads that call into helper.py at the same time (Streamlit runs each
\* session's script in a thread of its own; app and the pools are shared)
Threads == {1, 2}

\* ------------------------------------------------------------------ Init
Init ==
    /\ fs = [p \in Paths |-> IF p = "A"
                              THEN [content |-> <<1, 2>>, mtime |-> 1]
                              ELSE [content |-> <<2, 1>>, mtime |-> 2]]
    /\ fpcache = [p \in Paths |-> None]
    /\ dirs = {}
    /\ collections = {}
    /\ meta = [d \in AllDirs |-> None]
    /\ client_cache = {}
    /\ vectorstore_cache = {}
    /\ pc = "START"
    /\ st = Idle
    /\ visited = <<>>
    /\ docChanged = FALSE
    /\ lastBuild = None
    /\ gate = None
    /\ calls = <<>>
    /\ lastHit = None
    /\ nWrites = 0
    /\ nDocQueries = 0
    /\ nFaults = 0
    /\ tpc = [t \in Threads |-> "idle"]
    /\ tclient = [t \in Threads |-> 0]
    /\ nClients = 0
    /\ closed = {}
    /\ cached_client = 0
    /\ nHandles = 0
    /\ cached_handle = 0
    /\ nRequests = 0
    /\ uploaded = {}
    /\ pdf_context_cache = {}
    /\ routing = None
    /\ cinputs = {}

\* ----------------------------------------------------------- environment
\* Somebody writes the file at path: new bytes, a new modification time
\* (os.utime can set any), or both. Only check_cache_node, load_pdf_node and
\* build_index_node read a file, and only the request's own, so a write is
\* placed between requests, or on the request's file before load_pdf_node
\* or before build_index_node; any other placement commutes with the nodes
\* around it.
WriteFile(path, content, mtime) ==
    /\ nWrites < MaxWrites
    /\ \/ pc = "START"
       \/ pc \in {"load_pdf", "build_index"} /\ st.pdf_path = path
    /\ [content |-> content, mtime |-> mtime] # fs[path]
    /\ fs' = [fs EXCEPT ![path] = [content |-> content, mtime |-> mtime]]
    /\ nWrites' = nWrites + 1
    /\ docChanged' = (docChanged \/ (Running /\ "pdf_path" \in DOMAIN st
                                      /\ st.pdf_path = path))
    /\ lastBuild' = IF lastBuild # None /\ lastBuild[1].pdf_path = path
                    THEN Some([lastBuild[1] EXCEPT !.changedAfter = TRUE])
                    ELSE lastBuild
    /\ lastHit' = IF lastHit # None /\ lastHit[1].pdf_path = path THEN None ELSE lastHit
    /\ UNCHANGED <<fpcache, indexVars, poolVars, pc, st, visited, gate, calls,
                   nDocQueries, nFaults, concVars, ctxVars>>

\* cleanup_clients() as main() calls it: in the finally block that ends the
\* question loop, after which the process exits
cleanup_clients ==
    /\ pc = "START"
    /\ client_cache' = {}
    /\ vectorstore_cache' = {}
    /\ pc' = "EXIT"
    /\ UNCHANGED <<fs, fpcache, indexVars, st, visited, ghostVars, nWrites, nFaults, concVars, ctxVars,
                   nDocQueries>>

\* ------------------------------------------------------------- a request
\* IntegratedApp.query builds the input state and invokes the workflow.
\* A request that does not reach check_cache reads and writes nothing that
\* outlives it (no file, no index, no pool).  Such requests are therefore
\* explored from the initial index only (Fresh); requests that reach
\* check_cache are counted there.  Build parameters and force_rebuild are
\* varied for requests that can reach the index (a document and no weather
\* keyword), force_rebuild = True with the default parameters; the others
\* use the defaults of query().
Fresh == nDocQueries = 0 /\ nWrites = 0 /\ nFaults = 0

DefaultParams ==
    [chunk_size |-> DEFAULT_CHUNK_SIZE, chunk_overlap |-> DEFAULT_CHUNK_OVERLAP,
     embed_model |-> EMBEDDING_MODEL]

reaches_index(question, pdf_path) ==
    pdf_path # NoPdf /\ ~has_weather_keyword(question)

\* the input_state dict of IntegratedApp.query
input_state(question, pdf_path, params, force_rebuild) ==
    [question |-> question,
     pdf_path |-> pdf_path,
     chunk_size |-> params.chunk_size,
     chunk_overlap |-> params.chunk_overlap,
     embed_model |-> params.embed_model,
     force_rebuild |-> force_rebuild]

query(question, pdf_path, params, force_rebuild) ==
    /\ pc = "START"
    /\ IF reaches_index(question, pdf_path)
       THEN nDocQueries < MaxDocQueries
            /\ (force_rebuild => params = DefaultParams)
       ELSE Fresh /\ params = DefaultParams /\ ~force_rebuild
    /\ st' = input_state(question, pdf_path, params, force_rebuild)
    /\ pc' = "router"
    /\ visited' = <<>>
    /\ docChanged' = FALSE
    /\ gate' = None
    /\ calls' = <<>>
    /\ lastHit' = lastHit
    /\ UNCHANGED <<fs, fpcache, indexVars, poolVars, lastBuild, nWrites, nFaults, concVars, ctxVars,
                   nDocQueries>>

\* variant: the graph whose retrieve node is wired to END
edge_retrieve_to_end(node) ==
    CASE node = "weather" -> "END"
      [] node = "unknown" -> "END"
      [] node = "load_pdf" -> "split_docs"
      [] node = "split_docs" -> "build_index"
      [] node = "build_index" -> "retrieve"
      [] node = "load_index" -> "retrieve"
      [] node = "retrieve" -> "END"
      [] node = "generate" -> "END"

\* graph.add_edge: the node that follows a node with one successor
edge(node) ==
    CASE node = "weather" -> "END"
      [] node = "unknown" -> "END"
      [] node = "load_pdf" -> "split_docs"
      [] node = "split_docs" -> "build_index"
      [] node = "build_index" -> "retrieve"
      [] node = "load_index" -> "retrieve"
      [] node = "retrieve" -> "generate"
      [] node = "generate" -> "END"

\* router_node, then the conditional edge route_after_classification
router_node(ctx, cls) ==
    /\ pc = "router"
    /\ visited' = Append(visited, "router")
    /\ LET pdf_available == st.pdf_path # NoPdf
           agent_type == route_to_agent(st.question, pdf_available, ctx, cls)
       IN  IF agent_type = RouterRaises
           THEN /\ pc' = "ERROR"
                /\ st' = st
           ELSE /\ st' = Merge(st, [agent_type |-> agent_type,
                                    steps |-> << <<"Routed to", UpperName(agent_type)>> >>])
                /\ pc' = route_after_classification(st')
    /\ pc' = "check_cache" \/ Fresh
    /\ calls' = calls \o router_calls(st.question, st.pdf_path # NoPdf, ctx, cls)
    /\ lastHit' = lastHit
    /\ UNCHANGED <<fs, fpcache, indexVars, poolVars, docChanged, lastBuild, gate,
                   nWrites, nFaults, concVars, ctxVars, nDocQueries>>

\* What the extractor's text can be: the call raises, the text is not JSON,
\* it is JSON but not an object, or an object with or without a city
ExtractorOutcomes ==
    {"raises", "unparseable", "non_object", "no_city", "city_state"}

\* {"city": None, "state": None}
NullLocation == [city |-> "None", state |-> "None"]

\* extract_location_from_query, when the chain returned its text:
\* json.loads(result), and the null location when json.loads raises.  Text
\* that is JSON but no object (here the list ["Jaipur"]) is returned as
\* json.loads decoded it.
extract_location_from_query(ext) ==
    CASE ext = "city_state" -> [city |-> "Jaipur", state |-> "Rajasthan"]
      [] ext = "non_object" -> <<"Jaipur">>
      [] OTHER -> NullLocation

\* What fetch_weather_data can return: None (the request raised, or the
\* status was not 200, or the body was empty or not JSON), or the decoded
\* body of a 200 response, which holds main.temp or does not
FetchOutcomes == {"fails", "payload", "payload_without_temp"}

\* variant: a weather handler that also returns an empty context
weather_update_with_context(ext, fetch) ==
    LET location == extract_location_from_query(ext)
        location_str == IF location.state # "None"
                        THEN <<location.city, location.state>>
                        ELSE <<location.city>>
    IN  IF location.city = "None"
        THEN [answer |-> <<"clarify">>,
              context |-> <<>>,
              metadata |-> [agent |-> "weather", success |-> FALSE],
              steps |-> << <<"No city found in query">> >>]
        ELSE IF fetch = "fails"
        THEN [answer |-> <<"sorry">> \o location_str,
              metadata |-> [agent |-> "weather", success |-> FALSE,
                            city |-> location.city, state |-> location.state],
              steps |-> << <<"Weather API failed for">> \o location_str >>]
        ELSE [city |-> location.city,
              state |-> location.state,
              weather_data |-> "payload",
              answer |-> <<"weather in", location.city>>,
              metadata |-> [agent |-> "weather", success |-> TRUE,
                            city |-> location.city, state |-> location.state,
                            temperature |-> "temp"],
              steps |-> << <<"Fetched weather for">> \o location_str >>]

weather_update(ext, fetch) ==
    LET location == extract_location_from_query(ext)
        location_str == IF location.state # "None"
                        THEN <<location.city, location.state>>
                        ELSE <<location.city>>
    IN  IF location.city = "None"
        THEN [answer |-> <<"clarify">>,
              metadata |-> [agent |-> "weather", success |-> FALSE],
              steps |-> << <<"No city found in query">> >>]
        ELSE IF fetch = "fails"
        THEN [answer |-> <<"sorry">> \o location_str,
              metadata |-> [agent |-> "weather", success |-> FALSE,
                            city |-> location.city, state |-> location.state],
              steps |-> << <<"Weather API failed for">> \o location_str >>]
        ELSE [city |-> location.city,
              state |-> location.state,
              weather_data |-> "payload",
              answer |-> <<"weather in", location.city>>,
              metadata |-> [agent |-> "weather", success |-> TRUE,
                            city |-> location.city, state |-> location.state,
                            temperature |-> "temp"],
              steps |-> << <<"Fetched weather for">> \o location_str >>]

\* variant: a handler that fetches before it looks at the city
weather_calls_fetch_first(ext) ==
    IF ext \in {"raises", "unparseable", "non_object"} THEN <<"extractor">>
    ELSE <<"extractor", "fetch">>

\* the external calls weather_node makes: the extractor chain, and
\* requests.get when a city was resolved
weather_calls(ext) ==
    IF ext \in {"raises", "non_object"} THEN <<"extractor">>
    ELSE IF extract_location_from_query(ext).city = "None" THEN <<"extractor">>
    ELSE <<"extractor", "fetch">>

\* weather_node leaves with an exception: the extractor chain raised,
\* location.get on a value that is no dict, or weather_data["main"]["temp"]
\* on a body without it
weather_node_raises(ext, fetch) ==
    \/ ext \in {"raises", "non_object"}
    \/ /\ extract_location_from_query(ext).city # "None"
       /\ fetch = "payload_without_temp"

weather_node(ext, fetch) ==
    /\ pc = "weather"
    /\ visited' = Append(visited, "weather")
    /\ IF weather_node_raises(ext, fetch)
       THEN /\ pc' = "ERROR"
            /\ st' = st
       ELSE /\ st' = Merge(st, weather_update(ext, fetch))
            /\ pc' = edge("weather")
    /\ calls' = calls \o weather_calls(ext)
    /\ lastHit' = lastHit
    /\ UNCHANGED <<fs, fpcache, indexVars, poolVars, docChanged, lastBuild, gate,
                   nWrites, nFaults, concVars, ctxVars, nDocQueries>>

unknown_node ==
    /\ pc = "unknown"
    /\ visited' = Append(visited, "unknown")
    /\ st' = Merge(st, [answer |-> <<"help", IF st.pdf_path # NoPdf
                                             THEN "PDF loaded" ELSE "No PDF">>,
                        metadata |-> [agent |-> "unknown"],
                        steps |-> << <<"Unknown query type">> >>])
    /\ pc' = edge("unknown")
    /\ UNCHANGED <<fs, fpcache, indexVars, poolVars, ghostVars, nWrites, nFaults, concVars, ctxVars,
                   nDocQueries>>

\* variant: a check that drops the collection it found not valid
collections_after_valid_check_dropping_stale(collection_name, persist_dir, valid) ==
    IF valid THEN collections
    ELSE {c \in collections : ~(c.dir = persist_dir /\ c.name = collection_name)}

\* the store after is_index_valid: client.get_collections() and
\* load_metadata only read
collections_after_valid_check(collection_name, persist_dir, valid) == collections

check_cache_node ==
    /\ pc = "check_cache"
    /\ visited' = Append(visited, "check_cache")
    /\ LET collection_name == generate_collection_name(st.pdf_path)
           persist_dir == PersistDir(collection_name)
           cache_hit == cache_hit_of(collection_name, st.pdf_path,
                                     params_of(st), st.force_rebuild)
       IN  IF is_index_valid_raises(collection_name, persist_dir)
           THEN /\ st' = st
                /\ pc' = "ERROR"
                /\ client_cache' = clients_after_valid_check(persist_dir)
                /\ lastHit' = None
                /\ collections' = collections
           ELSE /\ st' = Merge(st, [collection_name |-> collection_name,
                                    persist_dir |-> persist_dir,
                                    cache_hit |-> cache_hit,
                                    steps |-> << IF cache_hit
                                                 THEN <<"Found valid cached index">>
                                                 ELSE <<"No valid cache found">> >>])
                /\ pc' = should_build_index(cache_hit)
                /\ client_cache' = clients_after_valid_check(persist_dir)
                /\ lastHit' = IF cache_hit
                              THEN Some([pdf_path |-> st.pdf_path, params |-> params_of(st)])
                              ELSE None
                /\ collections' = collections_after_valid_check(collection_name, persist_dir, cache_hit)
    /\ fpcache' = fpcache_after(st.pdf_path)
    /\ docChanged' = FALSE
    /\ gate' = lastBuild
    /\ lastBuild' = None
    /\ calls' = calls
    /\ nDocQueries' = nDocQueries + 1
    /\ UNCHANGED <<fs, dirs, meta, vectorstore_cache, nWrites, nFaults, concVars, ctxVars>>

\* load_pdf(path): the pages of the file as it is when loaded
load_pdf(path) == [source |-> path, bytes |-> fs[path].content]

load_pdf_node ==
    /\ pc = "load_pdf"
    /\ visited' = Append(visited, "load_pdf")
    /\ st' = Merge(st, [docs |-> load_pdf(st.pdf_path),
                        steps |-> << <<"Loaded PDF">> >>])
    /\ pc' = edge("load_pdf")
    /\ UNCHANGED <<fs, fpcache, indexVars, poolVars, ghostVars, nWrites, nFaults, concVars, ctxVars,
                   nDocQueries>>

split_documents(docs, chunk_size, chunk_overlap) ==
    [docs |-> docs, chunk_size |-> chunk_size, chunk_overlap |-> chunk_overlap]

split_docs_node ==
    /\ pc = "split_docs"
    /\ visited' = Append(visited, "split_docs")
    /\ st' = Merge(st, [splits |-> split_documents(st.docs, st.chunk_size,
                                                   st.chunk_overlap),
                        steps |-> << <<"Split into chunks">> >>])
    /\ pc' = edge("split_docs")
    /\ UNCHANGED <<fs, fpcache, indexVars, poolVars, ghostVars, nWrites, nFaults, concVars, ctxVars,
                   nDocQueries>>

\* build_qdrant_vectorstore: delete the collection if it exists, create it,
\* add the documents.  points = None: created, documents not added.
collections_after_build(collection_name, persist_dir, embed_model, points) ==
    { c \in collections : ~(c.dir = persist_dir /\ c.name = collection_name) }
    \cup {[dir |-> persist_dir, name |-> collection_name,
           points |-> points, embed |-> embed_model]}

\* the metadata build_index_node hands to save_metadata
build_metadata(state) ==
    [pdf_fingerprint |-> file_fingerprint(state.pdf_path),
     chunk_size |-> state.chunk_size,
     chunk_overlap |-> state.chunk_overlap,
     embedding_model |-> state.embed_model,
     format |-> "v2",
     collection_name |-> state.collection_name]

\* variant: a descriptor that is written once and kept by later builds
save_metadata_keeping_existing(persist_dir, metadata) ==
    IF meta[persist_dir] # None THEN meta
    ELSE [meta EXCEPT ![persist_dir] = Some(metadata)]

\* save_metadata(persist_dir, metadata): meta.json afterwards
save_metadata(persist_dir, metadata) ==
    [meta EXCEPT ![persist_dir] = Some(metadata)]

build_index_node ==
    /\ pc = "build_index"
    /\ visited' = Append(visited, "build_index")
    /\ collections' = collections_after_build(st.collection_name,
                          st.persist_dir, st.embed_model, Some(st.splits))
    /\ client_cache' = client_cache \cup {st.persist_dir}
    /\ dirs' = dirs \cup {st.persist_dir}
    /\ meta' = save_metadata(st.persist_dir, build_metadata(st))
    /\ fpcache' = fpcache_after(st.pdf_path)
    /\ st' = Merge(st, [vectorstore |-> [dir |-> st.persist_dir,
                                         name |-> st.collection_name,
                                         embed |-> st.embed_model],
                        steps |-> << <<"Built and saved new Qdrant index">> >>])
    /\ lastBuild' = Some([pdf_path |-> st.pdf_path,
                          params |-> params_of(st),
                          collection_name |-> st.collection_name,
                          content |-> fs[st.pdf_path].content,
                          mtime |-> fs[st.pdf_path].mtime,
                          changedDuring |-> docChanged,
                          changedAfter |-> FALSE])
    /\ pc' = edge("build_index")
    /\ calls' = Append(calls, "embeddings")
    /\ lastHit' = lastHit
    /\ UNCHANGED <<fs, vectorstore_cache, docChanged, gate, nWrites, nFaults, concVars, ctxVars,
                   nDocQueries>>

vectorstore_key(state) ==
    <<state.persist_dir, state.collection_name, state.embed_model>>

load_index_node ==
    /\ pc = "load_index"
    /\ visited' = Append(visited, "load_index")
    /\ IF vectorstore_key(st) \in vectorstore_cache
       THEN UNCHANGED poolVars
       ELSE /\ client_cache' = client_cache \cup {st.persist_dir}
            /\ vectorstore_cache' = vectorstore_cache \cup {vectorstore_key(st)}
    /\ st' = Merge(st, [vectorstore |-> [dir |-> st.persist_dir,
                                         name |-> st.collection_name,
                                         embed |-> st.embed_model],
                        steps |-> << <<"Loaded cached index (fast path)">> >>])
    /\ pc' = edge("load_index")
    /\ UNCHANGED <<fs, fpcache, indexVars, ghostVars, nWrites, nFaults, concVars, ctxVars, nDocQueries>>

retrieve_node ==
    /\ pc = "retrieve"
    /\ visited' = Append(visited, "retrieve")
    /\ st' = Merge(st, [retrieved_docs |-> "chunks",
                        context |-> "context",
                        steps |-> << <<"Retrieved relevant chunks">> >>])
    /\ pc' = edge("retrieve")
    /\ calls' = Append(calls, "embeddings")
    /\ lastHit' = lastHit
    /\ UNCHANGED <<fs, fpcache, indexVars, poolVars, docChanged, lastBuild, gate,
                   nWrites, nFaults, concVars, ctxVars, nDocQueries>>

generate_answer_node ==
    /\ pc = "generate"
    /\ visited' = Append(visited, "generate")
    /\ st' = Merge(st, [answer |-> <<"answer">>,
                        steps |-> << <<"Generated answer">> >>])
    /\ pc' = edge("generate")
    /\ calls' = Append(calls, "llm")
    /\ lastHit' = lastHit
    /\ UNCHANGED <<fs, fpcache, indexVars, poolVars, docChanged, lastBuild, gate,
                   nWrites, nFaults, concVars, ctxVars, nDocQueries>>

\* What IntegratedApp.query hands its caller once workflow.invoke is over:
\* the final state dict, or the exception of the node that raised (query
\* has no handler, the state accumulated so far is dropped with the frame)
query_result ==
    IF pc = "END" THEN [kind |-> "result", state |-> st]
    ELSE [kind |-> "exception"]

\* workflow.invoke returns the final state, or the exception leaves query()
query_returns ==
    /\ pc \in {"END", "ERROR"}
    /\ pc' = "START"
    /\ st' = Idle
    /\ visited' = <<>>
    /\ docChanged' = FALSE
    /\ gate' = None
    /\ calls' = <<>>
    /\ lastHit' = lastHit
    /\ UNCHANGED <<fs, fpcache, indexVars, poolVars, lastBuild, nWrites, nFaults, concVars, ctxVars,
                   nDocQueries>>

Next ==
    \/ \E p \in Paths, c \in Contents, t \in Mtimes : WriteFile(p, c, t)
    \/ cleanup_clients
    \/ \E q \in Questions, p \in Paths \cup {NoPdf}, ps \in ParamSets,
          f \in BOOLEAN : query(q, p, ps, f)
    \/ \E ctx \in ContextOutcomes, cls \in ClassifierOutcomes :
          router_node(ctx, cls)
    \/ \E ext \in ExtractorOutcomes, fetch \in FetchOutcomes :
          weather_node(ext, fetch)
    \/ unknown_node
    \/ check_cache_node
    \/ load_pdf_node
    \/ split_docs_node
    \/ build_index_node
    \/ load_index_node
    \/ retrieve_node
    \/ generate_answer_node
    \/ query_returns

Spec == Init /\ [][Next]_vars

\* ------------------------------------------------------- a failing build
\* Where build_index_node can stop with an exception (or the process be
\* killed): at embed_query, before the store is touched; at
\* create_collection, after delete_collection; at add_documents, after
\* create_collection; at save_metadata, after the build.
BuildFailurePoints == {"embed", "create", "upsert", "save"}

\* the collections a build leaves behind when it stops at the given point
collections_after_failed_build(at, collection_name, persist_dir, embed_model, points) ==
    CASE at = "embed" -> collections
      [] at = "create" ->
            { c \in collections :
                ~(c.dir = persist_dir /\ c.name = collection_name) }
      [] at = "upsert" ->
            collections_after_build(collection_name, persist_dir, embed_model, None)
      [] at = "save" ->
            collections_after_build(collection_name, persist_dir, embed_model, points)

\* variant: a build that writes the descriptor before it builds
meta_after_failed_build_saved_first(at, state) ==
    save_metadata(state.persist_dir, build_metadata(state))

\* meta.json when the build stops: save_metadata is the last statement of
\* build_index_node, so no failure point lies behind it
meta_after_failed_build(at, state) == meta

\* build_index_node raising at one of these points; nothing is undone.
\* MaxDocQueries bounds the document requests that run to their end: the
\* aborted request is counted by nFaults instead.
build_index_fails(at) ==
    /\ pc = "build_index"
    /\ nFaults < MaxFaults
    /\ nFaults' = nFaults + 1
    /\ visited' = Append(visited, "build_index")
    /\ collections' = collections_after_failed_build(at, st.collection_name,
                          st.persist_dir, st.embed_model, Some(st.splits))
    /\ client_cache' = client_cache \cup {st.persist_dir}
    /\ dirs' = dirs \cup {st.persist_dir}
    /\ fpcache' = IF at = "save" THEN fpcache_after(st.pdf_path) ELSE fpcache
    /\ pc' = "ERROR"
    /\ nDocQueries' = nDocQueries - 1
    /\ meta' = meta_after_failed_build(at, st)
    /\ UNCHANGED <<fs, vectorstore_cache, st, ghostVars, nWrites, concVars, ctxVars>>

\* load_pdf_node or split_docs_node raising (the document is unreadable or
\* corrupt): the exception leaves workflow.invoke; neither node has touched
\* the store or meta.json
ingest_fails ==
    /\ pc \in {"load_pdf", "split_docs"}
    /\ nFaults < MaxFaults
    /\ nFaults' = nFaults + 1
    /\ visited' = Append(visited, pc)
    /\ pc' = "ERROR"
    /\ nDocQueries' = nDocQueries - 1
    /\ UNCHANGED <<fs, fpcache, indexVars, poolVars, st, ghostVars, nWrites, concVars, ctxVars>>

FaultNext ==
    \/ Next
    \/ \E at \in BuildFailurePoints : build_index_fails(at)

FaultSpec == Init /\ [][FaultNext]_vars

\* ------------------------------------------------------------- type check
TypeOK ==
    /\ pc \in {"START", "router", "weather", "unknown", "check_cache",
               "load_pdf", "split_docs", "build_index", "load_index",
               "retrieve", "generate", "END", "ERROR", "EXIT"}
    /\ dirs \subseteq AllDirs
    /\ client_cache \subseteq AllDirs
    /\ nWrites \in 0..MaxWrites
    /\ nDocQueries \in 0..MaxDocQueries
    /\ nFaults \in 0..MaxFaults

\* distinct contents have distinct digests and collection names
DigestsDistinct ==
    \A c1 \in Contents, c2 \in Contents :
        c1 # c2 => sha256(c1)[1] # sha256(c2)[1]

\* ------------------------------------------------------- claim vocabulary
RagNodes ==
    {"check_cache", "load_pdf", "split_docs", "build_index", "load_index",
     "retrieve", "generate"}

Visited(node) == \E i \in 1..Len(visited) : visited[i] = node

IsPrefix(s, t) == Len(s) <= Len(t) /\ \A i \in 1..Len(s) : s[i] = t[i]

\* check_cache_node was the last node to run: its verdict is in st
Checked == pc \in {"load_pdf", "load_index"}

\* The check that follows a completed build, for the same document path,
\* the same parameters and force_rebuild = false, the document not written
\* after the build
NextCheckAfterBuild ==
    /\ Checked
    /\ gate # None
    /\ gate[1].pdf_path = st.pdf_path
    /\ gate[1].params = params_of(st)
    /\ ~st.force_rebuild
    /\ ~gate[1].changedAfter

MissPath ==
    <<"router", "check_cache", "load_pdf", "split_docs", "build_index",
      "retrieve", "generate">>

\* the descriptor at the request's persist location, once check_cache ran
Descriptor == meta[st.persist_dir][1]

descriptor_params(d) ==
    [chunk_size |-> d.chunk_size, chunk_overlap |-> d.chunk_overlap,
     embed_model |-> d.embedding_model]

\* ------------------------------------------------------------------- C1
\* C1: after a request has run the miss path to completion (build_index
\* built the collection and saved the descriptor), if the document is not
\* written afterwards, the next validity check for the same document with
\* the same parameters and force_rebuild = false reports HIT.
C1_HitAfterBuild ==
    NextCheckAfterBuild => st.cache_hit

\* ------------------------------------------------------------------- C2
\* C2: whenever check_cache reports HIT, force_rebuild is false, a
\* descriptor exists at the location derived from the hash of the document's
\* content, the store holds the collection of that name, the descriptor's
\* parameters equal the requested ones and its fingerprint is the
\* fingerprint of the current content.
C2_HitImpliesAllFive ==
    pc = "load_index" =>
        LET name == <<"pdf_", sha256(fs[st.pdf_path].content)[1]>>
            dir == PersistDir(name)
        IN  /\ ~st.force_rebuild
            /\ meta[dir] # None
            /\ collection_exists(dir, name)
            /\ descriptor_params(meta[dir][1]) = params_of(st)
            /\ meta[dir][1].pdf_fingerprint = fresh_fingerprint(st.pdf_path)

\* ------------------------------------------------------------------- C3
\* C3: a validity check with parameters that differ in chunk size, chunk
\* overlap or embedding model from those the index was built with reports
\* MISS.
C3_OtherParamsMiss ==
    (/\ Checked
     /\ meta[st.persist_dir] # None
     /\ descriptor_params(Descriptor) # params_of(st))
    => ~st.cache_hit

\* the parameters are the only thing that differs
C3_Witness ==
    /\ pc = "load_pdf"
    /\ ~docChanged
    /\ ~st.force_rebuild
    /\ meta[st.persist_dir] # None
    /\ collection_exists(st.persist_dir, st.collection_name)
    /\ Descriptor.pdf_fingerprint = file_fingerprint(st.pdf_path)
    /\ Descriptor.chunk_size = st.chunk_size
    /\ Descriptor.embedding_model = st.embed_model
    /\ Descriptor.chunk_overlap # st.chunk_overlap

\* ------------------------------------------------------------------- C4
\* C4: with force_rebuild = true the gate reports MISS whatever the index
\* holds, and the request runs load_pdf, split_docs, build_index in that
\* order and never load_index.
C4_ForceRebuildMisses ==
    (st # Idle /\ st.force_rebuild /\ Visited("check_cache")) =>
        /\ ~st.cache_hit
        /\ pc # "load_index"
        /\ ~Visited("load_index")
        /\ IsPrefix(visited, MissPath)
        /\ pc \in {"load_pdf", "split_docs", "build_index", "retrieve",
                   "generate", "END"}

\* forced although descriptor, collection, parameters and fingerprint match
C4_Witness ==
    /\ pc = "load_pdf"
    /\ ~docChanged
    /\ st.force_rebuild
    /\ is_index_valid(st.collection_name, st.persist_dir, st.pdf_path,
                      st.chunk_size, st.chunk_overlap, st.embed_model)

\* ------------------------------------------------------------------- C5
\* C5: a change of a document's bytes that keeps its size and modification
\* time is still caught: the fingerprint computed for a path carries the
\* hash of the bytes now at that path, and a HIT is never reported on a
\* collection built from other bytes than the document's current ones.
C5_ChangeCaught ==
    /\ \A p \in Paths : file_fingerprint(p).sha256 = sha256(fs[p].content)
    /\ pc = "load_index" =>
          \A c \in collections :
              (c.dir = st.persist_dir /\ c.name = st.collection_name) =>
                  /\ c.points # None
                  /\ c.points[1].docs.bytes = fs[st.pdf_path].content

\* ------------------------------------------------------------------- C6
\* the check that follows a completed build, for another path
CheckOfOtherPath ==
    /\ Checked
    /\ gate # None
    /\ gate[1].pdf_path # st.pdf_path

\* C6: the collection name and the persist location are a function of the
\* content hash alone, and after an index is built for path A with
\* parameters P, a validity check with P for a byte-identical copy at
\* another path B, whatever its modification time, reports HIT on the same
\* collection.
C6_CopyHits ==
    /\ (Checked /\ ~docChanged) =>
          /\ st.collection_name
                = <<"pdf_", file_fingerprint(st.pdf_path).sha256[1]>>
          /\ st.persist_dir = <<INDEX_ROOT, st.collection_name>>
    /\ (/\ CheckOfOtherPath
        /\ ~docChanged
        /\ ~gate[1].changedDuring
        /\ fs[st.pdf_path].content = gate[1].content
        /\ gate[1].params = params_of(st)
        /\ ~st.force_rebuild)
       => (st.cache_hit /\ st.collection_name = gate[1].collection_name)

\* ------------------------------------------------------------------- C7
\* C7: two fingerprint computations over identical bytes return the same
\* sha256, whatever the quick-key cache of either path holds.
C7_FingerprintDeterministic ==
    \A p1 \in Paths, p2 \in Paths :
        fs[p1].content = fs[p2].content =>
            file_fingerprint(p1).sha256 = file_fingerprint(p2).sha256

\* ------------------------------------------------------------------- C8
\* state dicts the conditional edge may be given: every intent, also one
\* outside the three and a missing one, with and without a document
EdgeInputs ==
    LET intents == {RAG, WEATHER, UNKNOWN, <<"p", "d", "f">>}
        docs == Paths \cup {NoPdf}
    IN  {[agent_type |-> a, pdf_path |-> p] : a \in intents, p \in docs}
        \cup {[pdf_path |-> p] : p \in docs}
        \cup {[agent_type |-> a] : a \in intents}

HasDocument(state) ==
    "pdf_path" \in DOMAIN state /\ state.pdf_path # NoPdf

HasIntent(state, a) ==
    "agent_type" \in DOMAIN state /\ state.agent_type = a

\* C8: the node after the router is weather iff the intent is weather,
\* check_cache iff the intent is rag and a document is present, unknown in
\* every other case; a request without a document never enters check_cache
\* or a later document node.
C8_RouteSuccessor ==
    /\ \A e \in EdgeInputs :
          LET next == route_after_classification(e)
          IN  /\ next = "weather" <=> HasIntent(e, WEATHER)
              /\ next = "check_cache" <=> (HasIntent(e, RAG) /\ HasDocument(e))
              /\ next = "unknown" <=>
                    ~(HasIntent(e, WEATHER) \/ (HasIntent(e, RAG) /\ HasDocument(e)))
    /\ (visited = <<"router">> /\ pc # "ERROR") =>
          /\ pc = "weather" <=> st.agent_type = WEATHER
          /\ pc = "check_cache" <=> (st.agent_type = RAG /\ HasDocument(st))
          /\ pc = "unknown" <=>
                ~(st.agent_type = WEATHER \/ (st.agent_type = RAG /\ HasDocument(st)))
    /\ (st # Idle /\ ~HasDocument(st)) =>
          /\ pc \notin RagNodes
          /\ \A n \in RagNodes : ~Visited(n)

C8_Witness ==
    /\ visited = <<"router">>
    /\ pc = "unknown"
    /\ HasDocument(st)

\* ------------------------------------------------------------------- C9
\* the claim's condition on the question, stated apart from the router
LowercaseHoldsKeyword(question) ==
    \E k \in 1..Len(weather_keywords) :
        \E i \in 0..Len(question) :
            /\ i + Len(weather_keywords[k]) <= Len(question)
            /\ \A j \in 1..Len(weather_keywords[k]) :
                  LowerChar(question[i + j]) = weather_keywords[k][j]

\* C9: a question whose lowercase form contains a weather keyword is routed
\* to weather with or without a document, whatever the document holds; the
\* request runs router, weather and ends, and never enters check_cache.
C9_WeatherPrecedence ==
    (st # Idle /\ LowercaseHoldsKeyword(st.question)) =>
        /\ IsPrefix(visited, <<"router", "weather">>)
        /\ ~Visited("check_cache")
        /\ visited # <<>> => (pc = "weather" \/ visited = <<"router", "weather">>)
        /\ visited # <<>> => st.agent_type = WEATHER
        /\ pc \in {"router", "weather", "END", "ERROR"}
        /\ pc = "END" => visited = <<"router", "weather">>

C9_Witness ==
    /\ st # Idle
    /\ LowercaseHoldsKeyword(st.question)
    /\ st.question # Lower(st.question)
    /\ HasDocument(st)
    /\ pc = "END"
    /\ visited = <<"router", "weather">>

\* ------------------------------------------------------------------ C10
\* C10: no failure inside the router aborts a request: the router always
\* returns an intent, unknown when the context cannot be derived or the
\* classifier fails, and the request goes on to a handler.
C10_RouterNeverAborts ==
    ~(pc = "ERROR" /\ visited = <<"router">>)

\* ------------------------------------------------------------------ C11
\* the gate's verdict is in the state of the running request
GateReported == st # Idle /\ "cache_hit" \in DOMAIN st

BuildNodes == {"load_pdf", "split_docs", "build_index"}

GateEdge ==
    /\ (Checked /\ visited[Len(visited)] = "check_cache") =>
          /\ pc = "load_index" <=> st.cache_hit
          /\ pc = "load_pdf" <=> ~st.cache_hit
    /\ (GateReported /\ st.cache_hit) =>
          /\ pc \notin BuildNodes
          /\ \A n \in BuildNodes : ~Visited(n)
    /\ (GateReported /\ ~st.cache_hit) =>
          /\ pc # "load_index"
          /\ ~Visited("load_index")

\* C11: check_cache goes to load_index iff the gate reports HIT, otherwise
\* to load_pdf.  In a request whose gate reported HIT, load_pdf, split_docs
\* and build_index are never entered and no step of the request changes the
\* collections, the persist directories or a descriptor; in a request whose
\* gate reported MISS, load_index is never entered.
C11_HitLoadsMissBuilds ==
    /\ []GateEdge
    /\ [][(GateReported /\ st.cache_hit) => UNCHANGED indexVars]_vars

C11_Witness ==
    /\ GateReported
    /\ st.cache_hit
    /\ pc = "END"
    /\ visited = <<"router", "check_cache", "load_index", "retrieve", "generate">>

\* ------------------------------------------------------------------ C12
\* a node of the running request executes
RequestStep ==
    \/ \E ctx \in ContextOutcomes, cls \in ClassifierOutcomes :
          router_node(ctx, cls)
    \/ \E ext \in ExtractorOutcomes, fetch \in FetchOutcomes :
          weather_node(ext, fetch)
    \/ unknown_node
    \/ check_cache_node
    \/ load_pdf_node
    \/ split_docs_node
    \/ build_index_node
    \/ load_index_node
    \/ retrieve_node
    \/ generate_answer_node

\* One caller, no concurrent writer of the files: a file write neither
\* enables nor disables a node, so the runs of a request are the same
\* without it.
NextNoWrite ==
    \/ cleanup_clients
    \/ \E q \in Questions, p \in Paths \cup {NoPdf}, ps \in ParamSets,
          f \in BOOLEAN : query(q, p, ps, f)
    \/ RequestStep
    \/ query_returns

\* workflow.invoke is a synchronous call: the engine runs the next node of
\* a request until the request ends
LiveSpec == Init /\ [][NextNoWrite]_vars /\ WF_vars(RequestStep)

\* the same failures with the documents left alone between and during the
\* requests
RecoverNext ==
    \/ NextNoWrite
    \/ \E at \in BuildFailurePoints : build_index_fails(at)
    \/ ingest_fails

RecoverSpec == Init /\ [][RecoverNext]_vars

\* save_metadata stopping inside meta_path.write_text, which has truncated
\* the file and not written all of the text (the disk is full, the process
\* is stopped): the build is complete, meta.json is there and does not parse
save_metadata_interrupted ==
    /\ pc = "build_index"
    /\ nFaults < MaxFaults
    /\ nFaults' = nFaults + 1
    /\ visited' = Append(visited, "build_index")
    /\ collections' = collections_after_build(st.collection_name,
                          st.persist_dir, st.embed_model, Some(st.splits))
    /\ client_cache' = client_cache \cup {st.persist_dir}
    /\ dirs' = dirs \cup {st.persist_dir}
    /\ fpcache' = fpcache_after(st.pdf_path)
    /\ meta' = [meta EXCEPT ![st.persist_dir] = Unparseable]
    /\ pc' = "ERROR"
    /\ nDocQueries' = nDocQueries - 1
    /\ UNCHANGED <<fs, vectorstore_cache, st, ghostVars, nWrites, concVars, ctxVars>>

\* check_cache_node when client.get_collections() raises inside
\* is_index_valid: the except branch returns False
check_cache_listing_raises ==
    /\ pc = "check_cache"
    /\ nFaults < MaxFaults
    /\ nFaults' = nFaults + 1
    /\ visited' = Append(visited, "check_cache")
    /\ LET collection_name == generate_collection_name(st.pdf_path)
           persist_dir == PersistDir(collection_name)
       IN  /\ persist_dir \in dirs
           /\ st' = Merge(st, [collection_name |-> collection_name,
                               persist_dir |-> persist_dir,
                               cache_hit |-> FALSE,
                               steps |-> << <<"No valid cache found">> >>])
           /\ pc' = should_build_index(FALSE)
           /\ client_cache' = clients_after_valid_check(persist_dir)
    /\ fpcache' = fpcache_after(st.pdf_path)
    /\ docChanged' = FALSE
    /\ gate' = lastBuild
    /\ lastBuild' = None
    /\ lastHit' = None
    /\ nDocQueries' = nDocQueries + 1
    /\ UNCHANGED <<fs, indexVars, vectorstore_cache, calls, nWrites, concVars, ctxVars>>

\* requests over an index whose descriptor can be unparseable and whose
\* backend can fail while listing
CorruptNext ==
    \/ RecoverNext
    \/ save_metadata_interrupted
    \/ check_cache_listing_raises

CorruptSpec == Init /\ [][CorruptNext]_vars

TerminalNodes == {"weather", "unknown", "generate"}

OnePassToEnd ==
    /\ \A i \in 1..Len(visited), j \in 1..Len(visited) :
          visited[i] = visited[j] => i = j
    /\ Running => (~Visited(pc) /\ \A n \in TerminalNodes : ~Visited(n))
    /\ pc = "END" =>
          /\ Cardinality({n \in TerminalNodes : Visited(n)}) = 1
          /\ visited[Len(visited)] \in TerminalNodes
    /\ Len(visited) <= 7

\* C12: a request in which no node raises reaches END after finitely many
\* transitions (one in which a node raises stops there), passes through
\* exactly one of weather, unknown and generate, enters no node twice, and
\* the terminal node is the last node it enters.
C12_RequestTerminates ==
    /\ []OnePassToEnd
    /\ [][pc = "END" => (pc' = "START" /\ UNCHANGED <<indexVars, poolVars, fs>>)]_vars
    /\ (Running ~> (pc = "END" \/ pc = "ERROR"))

C12_Witness ==
    /\ pc = "END"
    /\ visited = MissPath

\* ------------------------------------------------------------------ C13
MissTrace ==
    << <<"Routed to", "RAG">>, <<"No valid cache found">>, <<"Loaded PDF">>,
       <<"Split into chunks">>, <<"Built and saved new Qdrant index">>,
       <<"Retrieved relevant chunks">>, <<"Generated answer">> >>

HitTrace ==
    << <<"Routed to", "RAG">>, <<"Found valid cached index">>,
       <<"Loaded cached index (fast path)">>,
       <<"Retrieved relevant chunks">>, <<"Generated answer">> >>

\* the request follows a request that built the index of the same document
\* with the same parameters, the document not written since that request
\* checked its cache
RepeatsBuildingRequest ==
    /\ GateReported
    /\ gate # None
    /\ gate[1].pdf_path = st.pdf_path
    /\ gate[1].params = params_of(st)
    /\ ~st.force_rebuild
    /\ ~gate[1].changedDuring
    /\ ~gate[1].changedAfter

\* C13: for a document with nothing indexed at its location the gate
\* reports MISS and the finished request's trace is route, MISS, load,
\* split, build, retrieve, generate; the identical request that follows,
\* the document unchanged, has the trace route, HIT, load-index, retrieve,
\* generate.  Every node that ran contributed exactly one entry and the
\* first entry is the routing entry.
C13_TwoCallTraces ==
    /\ (Checked /\ meta[st.persist_dir] = None) => ~st.cache_hit
    /\ (pc = "END" /\ GateReported /\ ~st.cache_hit) =>
          (st.steps = MissTrace /\ Len(st.steps) = 7)
    /\ (pc = "END" /\ RepeatsBuildingRequest) =>
          (st.steps = HitTrace /\ Len(st.steps) = 5)
    /\ (st # Idle /\ pc # "ERROR" /\ visited # <<>>) =>
          /\ Len(st.steps) = Len(visited)
          /\ st.steps[1][1] = "Routed to"

C13_Witness ==
    /\ pc = "END"
    /\ RepeatsBuildingRequest
    /\ st.steps = HitTrace

\* ------------------------------------------------------------------ C14
\* C14: when a node raises, the caller of IntegratedApp.query still
\* receives a structured result (no exception) that carries a message and
\* the trace accumulated up to the failing node, and no node was run twice.
C14_FailureReturnsResult ==
    pc = "ERROR" =>
        /\ query_result.kind = "result"
        /\ "answer" \in DOMAIN query_result.state
        /\ "steps" \in DOMAIN st => query_result.state.steps = st.steps
        /\ \A i \in 1..Len(visited), j \in 1..Len(visited) :
              visited[i] = visited[j] => i = j

\* ------------------------------------------------------------------ C15
\* the request's collection exists but holds no points: created, the chunks
\* never added
PartialCollection ==
    \E c \in collections :
        /\ c.dir = st.persist_dir
        /\ c.name = st.collection_name
        /\ c.points = None

\* C15: when build_index fails after the collection was created, the
\* partially created collection is gone when the request returns, and no
\* later validity check reports HIT on a collection whose build did not
\* complete, also when the failed build was a rebuild over an index that
\* had a descriptor.
C15_FailedBuildRolledBack ==
    /\ (pc = "ERROR" /\ visited[Len(visited)] = "build_index") =>
          ~PartialCollection
    /\ Checked => ~(st.cache_hit /\ PartialCollection)

\* ------------------------------------------------------------------ C16
\* the persisted index of the request's location after a completed build
BuildCompleted ==
    /\ collections' = collections_after_build(st.collection_name,
                          st.persist_dir, st.embed_model, Some(st.splits))
    /\ meta' = save_metadata(st.persist_dir, build_metadata(st))

\* C16: a build is all-or-nothing: a request that stops inside build_index
\* leaves the persisted collections and descriptors either as they were
\* before the build started or as the complete new collection together
\* with its descriptor.
C16_BuildAllOrNothing ==
    [][(pc = "build_index" /\ pc' = "ERROR") =>
          (UNCHANGED <<collections, meta>> \/ BuildCompleted)]_vars

\* ============================================================ threads
\* Two sessions call query on the one shared app at the same time, both for
\* document ConcPath with the default parameters.  A thread's step is one
\* call into the backend or one access to a module-level pool; the
\* sequential request of the main specification stands still.
reqVars == <<fs, fpcache, pc, st, visited, docChanged, lastBuild, gate, calls, lastHit, nWrites, nDocQueries, nFaults>>

seqVars == <<reqVars, ctxVars>>

ConcPath == "A"

ConcName == generate_collection_name(ConcPath)

ConcDir == PersistDir(ConcName)

ConcSplits ==
    split_documents(load_pdf(ConcPath), DefaultParams.chunk_size,
                    DefaultParams.chunk_overlap)

\* the state build_index_node reads in a thread's request
ConcState ==
    [pdf_path |-> ConcPath,
     chunk_size |-> DefaultParams.chunk_size,
     chunk_overlap |-> DefaultParams.chunk_overlap,
     embed_model |-> DefaultParams.embed_model,
     collection_name |-> ConcName,
     persist_dir |-> ConcDir]

\* clients constructed and not closed
LiveClients == (1..nClients) \ closed

\* the request's collection, if the store holds it
ConcCollection ==
    {c \in collections : c.dir = ConcDir /\ c.name = ConcName}

\* a thread enters query; is_index_valid first tests that the directory
\* exists and returns False without a client when it does not
t_query(t) ==
    /\ tpc[t] = "idle"
    /\ nRequests < MaxRequests
    /\ nRequests' = nRequests + 1
    /\ tpc' = [tpc EXCEPT ![t] = IF ConcDir \in dirs THEN "valid_goc"
                                 ELSE "build_goc"]
    /\ UNCHANGED <<seqVars, indexVars, poolVars, tclient, nClients, closed,
                   cached_client, nHandles, cached_handle>>

\* where get_or_create_client was called from, and where it returns to
new_of(at) ==
    CASE at = "valid_goc" -> "valid_new"
      [] at = "build_goc" -> "build_new"
      [] at = "load_goc" -> "load_new"

op_of(at) ==
    CASE at \in {"valid_goc", "valid_new"} -> "valid_op"
      [] at \in {"build_goc", "build_new"} -> "build_delete"
      [] at \in {"load_goc", "load_new"} -> "load_store"

raised_of(at) ==
    CASE at = "valid_new" -> "valid_raised"
      [] at = "build_new" -> "failed"
      [] at = "load_new" -> "failed"

\* get_or_create_client, the test `persist_dir not in _client_cache`
goc_check(t) ==
    /\ tpc[t] \in {"valid_goc", "build_goc", "load_goc"}
    /\ IF cached_client # 0
          THEN /\ tclient' = [tclient EXCEPT ![t] = cached_client]
               /\ tpc' = [tpc EXCEPT ![t] = op_of(tpc[t])]
          ELSE /\ tclient' = tclient
               /\ tpc' = [tpc EXCEPT ![t] = new_of(tpc[t])]
    /\ UNCHANGED <<seqVars, indexVars, poolVars, nClients, closed,
                   cached_client, nHandles, cached_handle, nRequests>>

\* get_or_create_client, `_client_cache[persist_dir] = QdrantClient(...)`.
\* While another client on the same path is open the constructor either
\* returns a second client or raises, depending on the storage lock.
goc_create(t) ==
    /\ tpc[t] \in {"valid_new", "build_new", "load_new"}
    /\ \/ /\ nClients' = nClients + 1
          /\ cached_client' = nClients + 1
          /\ client_cache' = client_cache \cup {ConcDir}
          /\ dirs' = dirs \cup {ConcDir}
          /\ tclient' = [tclient EXCEPT ![t] = nClients + 1]
          /\ tpc' = [tpc EXCEPT ![t] = op_of(tpc[t])]
       \/ /\ LiveClients # {}
          /\ tpc' = [tpc EXCEPT ![t] = raised_of(tpc[t])]
          /\ UNCHANGED <<nClients, cached_client, client_cache, dirs, tclient>>
    /\ UNCHANGED <<seqVars, collections, meta, vectorstore_cache, closed,
                   nHandles, cached_handle, nRequests>>

\* is_index_valid: the exception of the client call is caught, the verdict
\* is False
valid_raised(t) ==
    /\ tpc[t] = "valid_raised"
    /\ tpc' = [tpc EXCEPT ![t] = "build_goc"]
    /\ UNCHANGED <<seqVars, indexVars, poolVars, tclient, nClients, closed,
                   cached_client, nHandles, cached_handle, nRequests>>

\* is_index_valid: list the collections, read and compare the descriptor;
\* then should_build_index.  A closed client raises, which is_index_valid
\* turns into False.
valid_op(t) ==
    /\ tpc[t] = "valid_op"
    /\ LET hit == /\ tclient[t] \notin closed
                  /\ is_index_valid(ConcName, ConcDir, ConcPath,
                                    DefaultParams.chunk_size,
                                    DefaultParams.chunk_overlap,
                                    DefaultParams.embed_model)
       IN  tpc' = [tpc EXCEPT ![t] = IF hit THEN "load_check" ELSE "build_goc"]
    /\ tclient' = [tclient EXCEPT ![t] = 0]
    /\ UNCHANGED <<seqVars, indexVars, poolVars, nClients, closed,
                   cached_client, nHandles, cached_handle, nRequests>>

\* a backend call on a closed client raises and ends the request
op_on_closed_client(t) ==
    /\ tpc[t] \in {"build_delete", "build_create", "build_upsert", "retrieve"}
    /\ tclient[t] \in closed
    /\ tpc' = [tpc EXCEPT ![t] = "failed"]
    /\ UNCHANGED <<seqVars, indexVars, poolVars, tclient, nClients, closed,
                   cached_client, nHandles, cached_handle, nRequests>>

\* build_qdrant_vectorstore: client.delete_collection in try/except
build_delete(t) ==
    /\ tpc[t] = "build_delete"
    /\ tclient[t] \notin closed
    /\ collections' = collections \ ConcCollection
    /\ tpc' = [tpc EXCEPT ![t] = "build_create"]
    /\ UNCHANGED <<seqVars, dirs, meta, poolVars, tclient, nClients, closed,
                   cached_client, nHandles, cached_handle, nRequests>>

\* build_qdrant_vectorstore: client.create_collection, which raises when
\* the collection exists
build_create(t) ==
    /\ tpc[t] = "build_create"
    /\ tclient[t] \notin closed
    /\ IF ConcCollection # {}
          THEN /\ tpc' = [tpc EXCEPT ![t] = "failed"]
               /\ collections' = collections
          ELSE /\ tpc' = [tpc EXCEPT ![t] = "build_upsert"]
               /\ collections' = collections \cup
                      {[dir |-> ConcDir, name |-> ConcName, points |-> <<>>,
                        embed |-> DefaultParams.embed_model]}
    /\ UNCHANGED <<seqVars, dirs, meta, poolVars, tclient, nClients, closed,
                   cached_client, nHandles, cached_handle, nRequests>>

\* build_qdrant_vectorstore: vectorstore.add_documents(splits); the points
\* get fresh ids, so a second call adds a second set
build_upsert(t) ==
    /\ tpc[t] = "build_upsert"
    /\ tclient[t] \notin closed
    /\ IF ConcCollection = {}
          THEN /\ tpc' = [tpc EXCEPT ![t] = "failed"]
               /\ collections' = collections
          ELSE /\ tpc' = [tpc EXCEPT ![t] = "build_save"]
               /\ collections' = (collections \ ConcCollection) \cup
                      {[c EXCEPT !.points = Append(c.points, ConcSplits)] :
                           c \in ConcCollection}
    /\ UNCHANGED <<seqVars, dirs, meta, poolVars, tclient, nClients, closed,
                   cached_client, nHandles, cached_handle, nRequests>>

\* build_index_node: get_index_metadata and save_metadata
build_save(t) ==
    /\ tpc[t] = "build_save"
    /\ meta' = save_metadata(ConcDir, build_metadata(ConcState))
    /\ tpc' = [tpc EXCEPT ![t] = "retrieve"]
    /\ UNCHANGED <<seqVars, dirs, collections, poolVars, tclient, nClients,
                   closed, cached_client, nHandles, cached_handle, nRequests>>

\* load_qdrant_vectorstore, the test `cache_key in _vectorstore_cache`
load_check(t) ==
    /\ tpc[t] = "load_check"
    /\ IF cached_handle # 0
          THEN /\ tclient' = [tclient EXCEPT ![t] = cached_handle]
               /\ tpc' = [tpc EXCEPT ![t] = "retrieve"]
          ELSE /\ tclient' = tclient
               /\ tpc' = [tpc EXCEPT ![t] = "load_goc"]
    /\ UNCHANGED <<seqVars, indexVars, poolVars, nClients, closed,
                   cached_client, nHandles, cached_handle, nRequests>>

\* load_qdrant_vectorstore: Qdrant(client=...) and the store into
\* _vectorstore_cache
load_store(t) ==
    /\ tpc[t] = "load_store"
    /\ nHandles' = nHandles + 1
    /\ cached_handle' = tclient[t]
    /\ vectorstore_cache' = vectorstore_cache \cup {vectorstore_key(ConcState)}
    /\ tpc' = [tpc EXCEPT ![t] = "retrieve"]
    /\ UNCHANGED <<seqVars, indexVars, client_cache, tclient, nClients,
                   closed, cached_client, nRequests>>

\* retrieve_node: the similarity search through the handle's client; the
\* request then returns
t_retrieve(t) ==
    /\ tpc[t] = "retrieve"
    /\ tclient[t] \notin closed
    /\ tpc' = [tpc EXCEPT ![t] = "idle"]
    /\ tclient' = [tclient EXCEPT ![t] = 0]
    /\ UNCHANGED <<seqVars, indexVars, poolVars, nClients, closed,
                   cached_client, nHandles, cached_handle, nRequests>>

\* the exception leaves query
t_fails(t) ==
    /\ tpc[t] = "failed"
    /\ tpc' = [tpc EXCEPT ![t] = "idle"]
    /\ tclient' = [tclient EXCEPT ![t] = 0]
    /\ UNCHANGED <<seqVars, indexVars, poolVars, nClients, closed,
                   cached_client, nHandles, cached_handle, nRequests>>

\* the Cleanup Clients button of a session: cleanup_clients closes every
\* pooled client and clears both pools, whatever the other threads do
t_cleanup ==
    /\ cached_client # 0 \/ cached_handle # 0
    /\ closed' = closed \cup ({cached_client} \ {0})
    /\ cached_client' = 0
    /\ cached_handle' = 0
    /\ nHandles' = 0
    /\ client_cache' = {}
    /\ vectorstore_cache' = {}
    /\ UNCHANGED <<seqVars, indexVars, tpc, tclient, nClients, nRequests>>

ConcNext ==
    \/ \E t \in Threads : t_query(t)
    \/ \E t \in Threads : goc_check(t)
    \/ \E t \in Threads : goc_create(t)
    \/ \E t \in Threads : valid_raised(t)
    \/ \E t \in Threads : valid_op(t)
    \/ \E t \in Threads : op_on_closed_client(t)
    \/ \E t \in Threads : build_delete(t)
    \/ \E t \in Threads : build_create(t)
    \/ \E t \in Threads : build_upsert(t)
    \/ \E t \in Threads : build_save(t)
    \/ \E t \in Threads : load_check(t)
    \/ \E t \in Threads : load_store(t)
    \/ \E t \in Threads : t_retrieve(t)
    \/ \E t \in Threads : t_fails(t)
    \/ t_cleanup

ConcSpec == Init /\ [][ConcNext]_vars

ConcTypeOK ==
    /\ nClients \in 0..(4 * MaxRequests)
    /\ closed \subseteq 1..nClients
    /\ cached_client \in 0..nClients
    /\ cached_handle \in 0..nClients
    /\ nHandles \in 0..MaxRequests
    /\ nRequests \in 0..MaxRequests
    /\ \A t \in Threads : tclient[t] \in 0..nClients

\* ------------------------------------------------------------------ C17
\* the steps of a build: delete collection, create collection, upsert the
\* chunks, write the descriptor
InBuildSteps(t) ==
    tpc[t] \in {"build_delete", "build_create", "build_upsert", "build_save"}

\* every request has returned; one client served them all and it was
\* never closed
AllReturned ==
    /\ \A t \in Threads : tpc[t] = "idle"
    /\ nRequests > 0
    /\ nClients = 1
    /\ closed = {}

\* the collection holds the document's chunks once, the descriptor is the
\* one of this document and these parameters
OneCompleteSet ==
    /\ \A c \in ConcCollection : c.points = <<ConcSplits>>
    /\ ConcCollection # {}
    /\ meta[ConcDir] = Some(build_metadata(ConcState))

\* C17: builds of one collection are single-flight: the build steps of two
\* concurrent requests for the same document never interleave (no two
\* threads are inside the build steps at once), and when the requests
\* have returned the collection holds exactly one complete set of the
\* document's chunks with the matching descriptor.
C17_SingleFlightBuild ==
    /\ \A t1, t2 \in Threads : (InBuildSteps(t1) /\ InBuildSteps(t2)) => t1 = t2
    /\ (AllReturned /\ ConcCollection # {}) => OneCompleteSet

\* ------------------------------------------------------------------ C18
\* C18: get_or_create_client is atomic per storage location: at most one
\* client is open for the location at a time and every caller holds the
\* pooled one; and at most one index handle is constructed per (location,
\* collection, embedding model) while the pool keeps its entries.
C18_AtomicAcquire ==
    /\ Cardinality(LiveClients) <= 1
    /\ \A t \in Threads : tclient[t] # 0 /\ tclient[t] \notin closed =>
                             tclient[t] = cached_client
    /\ nHandles <= 1

\* ------------------------------------------------------------------ C19
\* a thread holds a client and has a backend operation with it ahead
InBackendOperation(t) ==
    /\ tclient[t] # 0
    /\ tpc[t] \in {"valid_op", "build_delete", "build_create", "build_upsert", "load_store", "retrieve"}

\* C19: cleanup_clients never closes a client that a request in flight has
\* acquired and still uses: no thread that is before or inside a backend
\* operation holds a closed client.
C19_CleanupWaitsForUse ==
    \A t \in Threads : InBackendOperation(t) => tclient[t] \notin closed

\* ==================================================== the router's context
\* The sessions of the frontend store their uploads in the one folder
\* uploaded_pdfs, under a name made of the content hash, and never remove
\* them.  route_to_agent is told only whether the request has a document;
\* extract_all_pdf_contexts walks the whole folder.
Uploads == {"pdf_1", "pdf_2", "pdf_3"}

\* a session stores its upload
upload(d) ==
    /\ d \notin uploaded
    /\ uploaded' = uploaded \cup {d}
    /\ UNCHANGED <<reqVars, indexVars, poolVars, concVars, pdf_context_cache,
                   routing, cinputs>>

\* route_to_agent for a question without weather keyword from the session
\* whose document is d: pdf_files = list(folder.glob("*.pdf"))
route_begin(d) ==
    /\ routing = None
    /\ d \in uploaded
    /\ routing' = Some([doc |-> d, todo |-> uploaded, summaries |-> {}])
    /\ UNCHANGED <<reqVars, indexVars, poolVars, concVars, uploaded,
                   pdf_context_cache, cinputs>>

\* one turn of the loop: extract_pdf_context(str(pdf)), from the cache or
\* summarized and cached
summarize(f) ==
    /\ routing # None
    /\ f \in routing[1].todo
    /\ routing' = Some([routing[1] EXCEPT !.todo = @ \ {f},
                                          !.summaries = @ \cup {f}])
    /\ pdf_context_cache' = pdf_context_cache \cup {f}
    /\ UNCHANGED <<reqVars, indexVars, poolVars, concVars, uploaded, cinputs>>

\* the merge of all summaries is the pdf_context in the classifier's prompt
classify ==
    /\ routing # None
    /\ routing[1].todo = {}
    /\ cinputs' = cinputs \cup {[doc |-> routing[1].doc,
                                 context |-> routing[1].summaries]}
    /\ routing' = None
    /\ UNCHANGED <<reqVars, indexVars, poolVars, concVars, uploaded,
                   pdf_context_cache>>

ContextNext ==
    \/ \E d \in Uploads : upload(d)
    \/ \E d \in Uploads : route_begin(d)
    \/ \E f \in Uploads : summarize(f)
    \/ classify

ContextSpec == Init /\ [][ContextNext]_vars

\* ------------------------------------------------------------------ C29
\* C29: the context the router gives the classifier is derived from the
\* request's own document only: it holds the summary of that document and
\* of no other, so two requests with the same question and the same
\* document are given the same classification input whatever other
\* documents were stored or summarized before.
C29_ContextOfOwnDocument ==
    /\ \A a \in cinputs : a.context = {a.doc}
    /\ \A a, b \in cinputs : a.doc = b.doc => a.context = b.context

\* ------------------------------------------------------------------ C20
\* the cache of the request's document is inconsistent: a descriptor
\* without its collection, or the collection without a descriptor
CacheInconsistent ==
    /\ GateReported
    /\ (meta[st.persist_dir] # None) #
           collection_exists(st.persist_dir, st.collection_name)

\* between the verdict of check_cache and the end of build_index
BeforeBuildDone == pc \in {"load_pdf", "load_index", "split_docs", "build_index"}

\* the request's collection holds the chunks and the descriptor next to it
\* is the one a validity check of this request accepts
CollectionAndMatchingDescriptor ==
    /\ \E c \in collections :
          /\ c.dir = st.persist_dir
          /\ c.name = st.collection_name
          /\ c.points # None
    /\ meta[st.persist_dir] # None
    /\ Descriptor.collection_name = st.collection_name
    /\ is_index_valid(st.collection_name, st.persist_dir, st.pdf_path,
                      st.chunk_size, st.chunk_overlap, st.embed_model)

\* C20: when the descriptor is persisted without its collection, or the
\* collection without a descriptor, check_cache reports MISS and the
\* request goes on (it does not stop at the check) through load_pdf,
\* split_docs and build_index; after build_index the collection and a
\* matching descriptor are both present.
C20_InconsistencyIsMiss ==
    /\ [](BeforeBuildDone /\ CacheInconsistent =>
            /\ ~st.cache_hit
            /\ IsPrefix(Append(visited, pc), MissPath))
    /\ [][(pc = "build_index" /\ CacheInconsistent /\ pc' = "retrieve") =>
            CollectionAndMatchingDescriptor']_vars

C20_Witness ==
    /\ pc = "build_index"
    /\ CacheInconsistent
    /\ ~st.cache_hit
    /\ visited = <<"router", "check_cache", "load_pdf", "split_docs">>

\* ------------------------------------------------------------------ C21
\* the request's collection after create_collection and add_documents
BuiltCollection ==
    [dir |-> st.persist_dir, name |-> st.collection_name,
     points |-> Some(st.splits), embed |-> st.embed_model]

\* C21: when load_pdf or split_docs fails the request is aborted with the
\* collections and every descriptor as they were; and a descriptor is
\* written only by the build_index step of a request that has created the
\* collection and added the chunks in that same step.
C21_IngestFailureLeavesIndex ==
    /\ [][(pc \in {"load_pdf", "split_docs"} /\ pc' = "ERROR") =>
             UNCHANGED <<collections, meta>>]_vars
    /\ [][meta' # meta =>
             /\ pc = "build_index"
             /\ visited' = Append(visited, "build_index")
             /\ BuiltCollection \in collections'
             /\ meta' = save_metadata(st.persist_dir, build_metadata(st))]_vars

C21_Witness ==
    /\ pc = "ERROR"
    /\ visited \in {<<"router", "check_cache", "load_pdf">>,
                    <<"router", "check_cache", "load_pdf", "split_docs">>}
    /\ collections # {}

\* ------------------------------------------------------------------ C22
\* the trace of a state dict (absent before the first node has run)
steps_of(state) == Get(state, "steps", <<>>)

\* C22: the trace is append-only within a request: every step of a running
\* request leaves the previous trace as a prefix of the new one and a node
\* that returns adds exactly its one entry; a request starts with no trace,
\* so the trace holds one entry per stage this request has run and none of
\* an earlier request.
C22_TraceAppendOnly ==
    /\ [][Running => IsPrefix(steps_of(st), steps_of(st'))]_vars
    /\ [][(Running /\ pc' # "ERROR" /\ visited' # visited) =>
             Len(steps_of(st')) = Len(steps_of(st)) + 1]_vars
    /\ [][pc = "START" /\ pc' = "router" => steps_of(st') = <<>>]_vars
    /\ [](pc \notin {"START", "EXIT", "ERROR"} =>
             Len(steps_of(st)) = Len(visited))

C22_Witness ==
    /\ pc = "END"
    /\ nDocQueries = 2
    /\ Len(steps_of(st)) = 7

\* ------------------------------------------------------------------ C23
\* the keys only the document-QA nodes return, and those only weather_node
\* returns
RagFields ==
    {"docs", "splits", "collection_name", "persist_dir", "cache_hit",
     "vectorstore", "retrieved_docs", "context"}

WeatherFields == {"city", "state", "weather_data"}

EndedAt(node) == pc = "END" /\ visited[Len(visited)] = node

\* C23: in the final state the fields of a branch not taken are unset: a
\* request that ended at weather or unknown has none of the document-QA
\* fields, one that ended at generate has no city, state or weather
\* payload, and on a HIT the loaded documents and the splits are unset.
C23_UntakenBranchUnset ==
    /\ (EndedAt("weather") \/ EndedAt("unknown")) =>
           (DOMAIN st) \cap RagFields = {}
    /\ EndedAt("generate") => (DOMAIN st) \cap WeatherFields = {}
    /\ (EndedAt("generate") /\ st.cache_hit) =>
           (DOMAIN st) \cap {"docs", "splits"} = {}

C23_Witness ==
    /\ EndedAt("generate")
    /\ st.cache_hit
    /\ {"vectorstore", "retrieved_docs", "context", "answer"} \subseteq DOMAIN st

\* ------------------------------------------------------------------ C24
\* the extractor returned a dict from which no city is resolved
NoCityResolved(ext) ==
    /\ ext \notin {"raises", "non_object"}
    /\ extract_location_from_query(ext).city = "None"

Called(name) == \E i \in 1..Len(calls) : calls[i] = name

\* C24: when weather_node resolves no city from the extractor's output it
\* returns the clarification answer with success = false and the request
\* ends without a call of the weather fetch.
C24_NoCityNoFetch ==
    /\ [][\A ext \in ExtractorOutcomes, fetch \in FetchOutcomes :
             (weather_node(ext, fetch) /\ NoCityResolved(ext)) =>
                 /\ st'.answer = <<"clarify">>
                 /\ st'.metadata = [agent |-> "weather", success |-> FALSE]
                 /\ pc' = "END"
                 /\ calls' = Append(calls, "extractor")]_vars
    /\ []((EndedAt("weather") /\ st.answer = <<"clarify">>) => ~Called("fetch"))

C24_Witness ==
    /\ EndedAt("weather")
    /\ st.answer = <<"clarify">>
    /\ ~st.metadata.success
    /\ calls = <<"extractor">>

\* ------------------------------------------------------------------ C25
CityResolved(ext) ==
    /\ ext \notin {"raises", "non_object"}
    /\ extract_location_from_query(ext).city # "None"

\* C25: weather_node never turns an outcome of the weather provider into a
\* failure of the request: with a city resolved, a failed fetch gives
\* success = false and an apology naming the city, a returned body gives
\* success = true with the body kept in the result, and the request ends
\* at END either way; success is true exactly when the body is in the
\* result.
C25_FetchNeverEscalates ==
    /\ [][\A ext \in ExtractorOutcomes, fetch \in FetchOutcomes :
             (weather_node(ext, fetch) /\ CityResolved(ext)) =>
                 /\ pc' = "END"
                 /\ fetch = "fails" =>
                       /\ ~st'.metadata.success
                       /\ st'.answer[1] = "sorry"
                       /\ st'.answer[2] = extract_location_from_query(ext).city
                 /\ fetch # "fails" =>
                       /\ st'.metadata.success
                       /\ "weather_data" \in DOMAIN st']_vars
    /\ [](EndedAt("weather") =>
             (st.metadata.success <=> "weather_data" \in DOMAIN st))

\* ------------------------------------------------------------------ C26
\* extractor text that is not a JSON object with city and state
MalformedExtractorOutputs == {"unparseable", "non_object"}

\* C26: every malformed extractor output maps to {city: null, state: null}:
\* for text that does not parse and for JSON that is no object,
\* extract_location_from_query yields the null location and weather_node
\* returns the clarification answer instead of raising.
C26_MalformedMapsToNull ==
    [][\A ext \in MalformedExtractorOutputs, fetch \in FetchOutcomes :
          weather_node(ext, fetch) =>
              /\ extract_location_from_query(ext) = NullLocation
              /\ pc' = "END"
              /\ st'.answer = <<"clarify">>]_vars

\* ------------------------------------------------------------------ C27
\* C27: every request that reaches END returns a result in which the
\* answer, the intent (agent_type), a non-empty trace (steps) and the intent
\* metadata (metadata) are all set, on the document-QA, the weather and the
\* unknown branch alike.
C27_ResultShape ==
    pc = "END" =>
        /\ {"answer", "agent_type", "steps", "metadata"} \subseteq DOMAIN query_result.state
        /\ query_result.state.steps # <<>>

\* ------------------------------------------------------------------ C28
\* router_node was the last node to run
Routed == visited = <<"router">>

\* C28: the router makes at most one external call per request, and none
\* when the question holds a weather keyword or no document is available;
\* without a document a question without a weather keyword is classified
\* unknown.
C28_RouterOneCall ==
    Routed =>
        /\ Len(calls) <= 1
        /\ (LowercaseHoldsKeyword(st.question) \/ st.pdf_path = NoPdf) => calls = <<>>
        /\ (~LowercaseHoldsKeyword(st.question) /\ st.pdf_path = NoPdf /\ pc # "ERROR") =>
               st.agent_type = UNKNOWN

\* ------------------------------------------------------------------ C30
\* C30: the router returns rag only when the request has a document, so
\* the edge never sees rag without a document; and in every completed
\* request agent_type names the handler that ran: weather for the weather
\* node, unknown for the unknown node, rag for the document-QA path.
C30_IntentNamesHandler ==
    /\ (st # Idle /\ "agent_type" \in DOMAIN st /\ st.agent_type = RAG) =>
           st.pdf_path # NoPdf
    /\ pc = "END" =>
           /\ EndedAt("weather") <=> st.agent_type = WEATHER
           /\ EndedAt("unknown") <=> st.agent_type = UNKNOWN
           /\ EndedAt("generate") <=> st.agent_type = RAG

C30_Witness ==
    /\ EndedAt("unknown")
    /\ st.pdf_path # NoPdf
    /\ st.agent_type = UNKNOWN
    /\ Called("classifier")

\* ------------------------------------------------------------------ C31
\* C31: the validity check is read-only on the index: whatever its verdict,
\* the check_cache step leaves the collections with their contents, every
\* descriptor, the directories, the documents and the pool of attached
\* stores as they were; only the fingerprint cache and the client pool may
\* change.
C31_CheckReadsOnly ==
    [][(pc = "check_cache" /\ visited' # visited) =>
          UNCHANGED <<collections, meta, dirs, fs, vectorstore_cache>>]_vars

C31_Witness ==
    /\ Checked
    /\ ~st.cache_hit
    /\ collection_exists(st.persist_dir, st.collection_name)
    /\ meta[st.persist_dir] # None

\* ------------------------------------------------------------------ C32
\* the handle in _vectorstore_cache wraps the client that is in
\* _client_cache, and that client is open
PoolConsistent ==
    cached_handle # 0 =>
        /\ cached_handle = cached_client
        /\ cached_handle \notin closed

\* C32: the pools stay consistent under cleanup: in every reachable state
\* of requests interleaved with cleanup_clients the pooled index handle is
\* bound to the client that is in the client pool and not closed; and when
\* cleanup_clients returns both pools are empty.
C32_PoolsConsistent ==
    /\ []PoolConsistent
    /\ [][t_cleanup =>
             /\ cached_client' = 0 /\ cached_handle' = 0
             /\ client_cache' = {} /\ vectorstore_cache' = {}]_vars

\* ------------------------------------------------------------------ C33
\* the collections stored under the request's identifier
CollectionsAtLocation(colls) ==
    {c \in colls : c.dir = st.persist_dir /\ c.name = st.collection_name}

\* the previous request built the index of this request's document with
\* other parameters, and the document was not written during that request
\* or since
BuiltWithOtherParams ==
    /\ lastBuild # None
    /\ lastBuild[1].pdf_path = st.pdf_path
    /\ ~lastBuild[1].changedDuring
    /\ ~lastBuild[1].changedAfter
    /\ lastBuild[1].params # params_of(st)

\* the previous request was a HIT on this request's document with other
\* parameters, and the document was not written since
HitWithOtherParams ==
    /\ lastHit # None
    /\ lastHit[1].pdf_path = st.pdf_path
    /\ lastHit[1].params # params_of(st)

IndexNotUsable ==
    LET dir == PersistDir(generate_collection_name(st.pdf_path))
    IN  \/ dir \notin dirs
        \/ meta[dir] = None
        \/ meta[dir] = Unparseable

\* C34: the validity check never raises because of the persisted index: a
\* backend error while listing the collections, a missing persist
\* directory, a missing descriptor and a descriptor that does not parse
\* are each reported as MISS, and the request goes on to rebuild.
C34_CheckNeverRaises ==
    [][/\ pc = "check_cache" => pc' # "ERROR"
       /\ (\/ check_cache_listing_raises
           \/ (pc = "check_cache" /\ pc' # pc /\ IndexNotUsable)) =>
             (pc' = "load_pdf" /\ ~st'.cache_hit)]_vars

====
